---- MODULE Spec2Model ----
(***************************************************************************)
(* Model of the streaming decoder of midbel/dissect: state.Run and the     *)
(* statement handlers of decode.go, the expression evaluator of eval.go    *)
(* and the value model of values.go.                                       *)
(*                                                                         *)
(* The call stack of decodeBlock / evalRepeat* is explicit (variable       *)
(* stack); every statement handler is one action.  Values are pointers in  *)
(* the Go code (Value is an interface over *Int, *Uint, ...) so the        *)
(* environment root.Values is a sequence of addresses into a heap.         *)
(***************************************************************************)
EXTENDS Integers, Sequences, FiniteSets, TLC

(***************************************************************************)
(* Bounds of the model.                                                    *)
(***************************************************************************)
MaxInput == 2     \* longest input stream, in bytes
MaxOffset == 7    \* largest size of the leading field of a bit-window schema
MaxBits == 9      \* largest size of the second field of a bit-window schema

(***************************************************************************)
(* Program constants.                                                      *)
(***************************************************************************)
numbit == 8       \* decode.go:26
ChunkLen == 4096  \* decode.go:94, decode.go:140

(***************************************************************************)
(* Go integer arithmetic: / and % truncate toward zero.                    *)
(***************************************************************************)
GoDiv(a, b) == IF a >= 0 THEN a \div b ELSE -((-a) \div b)
GoMod(a, b) == IF a >= 0 THEN a % b ELSE -((-a) % b)

RECURSIVE Pow2(_)
Pow2(n) == IF n <= 0 THEN 1 ELSE 2 * Pow2(n - 1)

Min2(a, b) == IF a < b THEN a ELSE b

\* the bytes an input stream is made of
ByteVals == {0, 1, 182, 255}

RECURSIVE SeqsUpTo(_, _)
SeqsUpTo(S, n) ==
  IF n = 0 THEN {<< >>}
  ELSE LET R == SeqsUpTo(S, n - 1)
       IN R \cup {Append(s, x) : s \in {r \in R : Len(r) = n - 1}, x \in S}

(***************************************************************************)
(* Errors and control-flow signals (decode.go:18-24, dissect.go:76-82).    *)
(* "nil" is Go's nil error; "panic" stands for a run-time fault that       *)
(* aborts the program.                                                     *)
(***************************************************************************)
Err(k) == [k |-> k, code |-> 0]
Nil == Err("nil")
ErrSkip == Err("skip")
ErrDone == Err("done")
errBreak == Err("break")
errContinue == Err("continue")
errShort == Err("short")
ErrIncompatible == Err("incompatible")
ErrUnsupported == Err("unsupported")
Panic == Err("panic")
ExitError(c) == [k |-> "exit", code |-> c]

(***************************************************************************)
(* Runtime values (values.go).  eng is "nil" (no engineering value) or     *)
(* "self" (Meta.Eng points to the value itself, evalApply's v.Set(v)).     *)
(* The Raw of a String or of a Bytes is a sequence of bytes; the Raw of a  *)
(* Real is a number of halves, so that 0.5 and 2.5 are values of the model. *)
(***************************************************************************)
kwAno == "anonymous"

Value(kind, raw, id, pos, eng) ==
  [kind |-> kind, raw |-> raw, id |-> id, pos |-> pos, eng |-> eng]
Null == Value("Null", 0, "", 0, "nil")
IntV(raw, id) == Value("Int", raw, id, 0, "nil")
anonymousBool(ok) == Value("Boolean", ok, kwAno, 0, "nil")

isNumeric(v) == v.kind \in {"Int", "Uint", "Real"}

\* values.go:621  both operands are Int, Uint or Real
isCompatible(l, r) == isNumeric(l) /\ isNumeric(r)

\* float64(n) of an integer n, in halves
Halves(n) == 2 * n
\* int64(r) of a real r held in halves: the fraction is dropped
Whole(r) == GoDiv(r, 2)

\* values.go:584
asInt(v) ==
  CASE v.kind = "Real" -> Whole(v.raw)
    [] v.kind \in {"Int", "Uint"} -> v.raw
    [] OTHER -> 0

\* values.go:571  uint64(x) of a negative x wraps modulo 2^64; the word is
\* scaled to 2^30 here (TLC's integers are 32 bits wide)
UintWrap == Pow2(30)
asUint(v) ==
  CASE v.kind = "Real" -> Whole(v.raw) % UintWrap
    [] v.kind \in {"Int", "Uint"} -> v.raw % UintWrap
    [] OTHER -> 0

\* values.go:558
asReal(v) ==
  CASE v.kind = "Real" -> v.raw
    [] v.kind \in {"Int", "Uint"} -> Halves(v.raw)
    [] OTHER -> 0

\* values.go:597  Real falls to the default case
asBool(v) ==
  CASE v.kind = "Boolean" -> v.raw
    [] v.kind \in {"Int", "Uint"} -> v.raw # 0
    [] v.kind \in {"String", "Bytes"} -> Len(v.raw) > 0
    [] OTHER -> FALSE

\* eval.go:283
isTrue(v) == asBool(v)

Sign(a, b) == IF a > b THEN 1 ELSE IF a < b THEN -1 ELSE 0

\* bytes.Compare, strings.Compare: the order of the first byte that differs,
\* a proper prefix coming first
RECURSIVE Compare(_, _)
Compare(a, b) ==
  IF a = << >> THEN (IF b = << >> THEN 0 ELSE -1)
  ELSE IF b = << >> THEN 1
  ELSE IF Head(a) # Head(b) THEN Sign(Head(a), Head(b))
  ELSE Compare(Tail(a), Tail(b))

\* values.go  Cmp of each kind
Cmp(l, r) ==
  CASE l.kind = "Null" -> IF r.kind = "Null" THEN 0 ELSE -1
    [] l.kind = "Boolean" ->
         IF r.kind # "Boolean" THEN -1
         ELSE IF l.raw = r.raw THEN 0 ELSE IF l.raw = FALSE THEN -1 ELSE 1
    [] l.kind = "Int" -> Sign(l.raw, asInt(r))
    [] l.kind = "Uint" -> Sign(l.raw, asUint(r))
    [] l.kind = "Real" -> Sign(l.raw, asReal(r))
    [] OTHER -> IF r.kind # l.kind THEN -1 ELSE Compare(l.raw, r.raw)


(***************************************************************************)
(* Expression and statement nodes (nodes.go).                              *)
(***************************************************************************)
NoExpr == [e |-> "nil"]
Lit(type, val) == [e |-> "Literal", type |-> type, val |-> val]
Num(n) == Lit("Integer", n)
Id(name) == [e |-> "Identifier", type |-> "Ident", id |-> name]
Internal(name) == [e |-> "Identifier", type |-> "Internal", id |-> name]
Unary(op, right) == [e |-> "Unary", operator |-> op, Right |-> right]
Binary(op, left, right) ==
  [e |-> "Binary", operator |-> op, Left |-> left, Right |-> right]
Assignment(left, right) == [e |-> "Assignment", left |-> left, right |-> right]
Member(ref, attr) == [e |-> "Member", ref |-> ref, attr |-> attr]

Token(type, lit) == [type |-> type, lit |-> lit]
Block(id, nodes) == [t |-> "Block", id |-> id, nodes |-> nodes]
Reference(id) == [t |-> "Reference", id |-> id]
Parameter(id, kind, size, endian, expect) ==
  [t |-> "Parameter", id |-> id, kind |-> kind, size |-> size,
   endian |-> endian, expect |-> expect]
Field(id, kind, n) == Parameter(id, kind, Token("Integer", n), "", NoExpr)
FieldWith(id, kind, ref) == Parameter(id, kind, Token("Ident", ref), "", NoExpr)
Break(expr) == [t |-> "Break", expr |-> expr]
Continue(expr) == [t |-> "Continue", expr |-> expr]
Exit(code) == [t |-> "Exit", code |-> Token("Integer", code)]
Let(id, expr) == [t |-> "Let", id |-> id, expr |-> Assignment(id, expr)]
Del(ids) == [t |-> "Del", ids |-> ids]
Seek(offset, absolute) ==
  [t |-> "Seek", offset |-> offset, absolute |-> absolute]
Repeat(expr, node) == [t |-> "Repeat", repeat |-> expr, node |-> node]
Include(cond, node) == [t |-> "Include", cond |-> cond, node |-> node]

\* nodes.go:24-110, 181-188  isBoolean of an expression
isBoolean(e) ==
  CASE e.e = "Unary" -> e.operator = "!"
    [] e.e = "Binary" ->
         e.operator \in {"==", "!=", "<", ">", "<=", ">=", "&&", "||"}
    [] OTHER -> FALSE

(***************************************************************************)
(* The state of the decoder (decode.go:62-79) and of one call of Run.      *)
(***************************************************************************)
VARIABLES
  data,      \* state.data: the data block of the schema
  reader,    \* the bytes of the input not yet read
  buffer,    \* state.buffer
  Pos,       \* state.Pos, the bit cursor
  Loop,      \* state.Loop
  Values,    \* state.Values: addresses into heap
  heap,      \* the values allocated during the pass
  blocks,    \* state.blocks, the path
  stack,     \* the frames of decodeBlock and evalRepeat* under Run
  err,       \* the error a returning call hands to its caller
  pc,        \* where Run is: "grow", "pass", "done"
  result,    \* what Run returned
  last,      \* the step taken last, with the cursor before it
  scopes,    \* a chain of Environments (env.go), the parent first
  live,      \* the fields defined and not deleted, scope by scope
  answer,    \* what the last operation on the chain returned
  probe,     \* the last call of a function checked on its own, with its result
  files,     \* state.files: the handle cached for each block path
  handles,   \* the files opened so far: name, write offset, open or closed
  disk,      \* the records each destination file holds
  sunk,      \* the records sent to each destination and its creations
  walker,    \* the goroutine of walkFiles
  queue,     \* the channel of walkFiles
  caller     \* DissectFiles ranging over the channel

\* the variables of the decoder, and those of the components checked apart
decoder == <<data, reader, buffer, Pos, Loop, Values, heap, blocks, stack, err,
             pc, result, last>>
sinks == <<files, handles, disk, sunk>>
walk == <<walker, queue, caller>>
apart == <<scopes, live, answer, probe, sinks, walk>>
vars == <<data, reader, buffer, Pos, Loop, Values, heap, blocks, stack, err,
          pc, result, last, scopes, live, answer, probe, files, handles, disk,
          sunk, walker, queue, caller>>

\* decode.go:151
Size == Len(buffer) * numbit

\* decode.go:212  the address of the last value named n, 0 when there is none
RECURSIVE ResolveFrom(_, _, _)
ResolveFrom(h, n, i) ==
  IF i = 0 THEN 0
  ELSE IF h[Values[i]].id = n THEN Values[i]
  ELSE ResolveFrom(h, n, i - 1)
ResolveValue(h, n) == ResolveFrom(h, n, Len(Values))

\* decode.go:155  the internal values that do not depend on the host
ResolveInternal(str) ==
  CASE str = "Loop" -> [err |-> Nil, v |-> IntV(Loop, str)]
    [] str = "Num" -> [err |-> Nil, v |-> IntV(Len(Values), str)]
    [] str = "Pos" -> [err |-> Nil, v |-> IntV(Pos, str)]
    [] str = "Size" -> [err |-> Nil, v |-> IntV(Size, str)]
    [] OTHER -> [err |-> Err("unknown internal"), v |-> Null]

(***************************************************************************)
(* eval.go.  A result is [err, v, ref, h]: the value v, its address ref in *)
(* h when it is a value of the environment (0 when freshly allocated), and *)
(* the heap after the evaluation (evalAssign renames its operand).         *)
(***************************************************************************)
Res(e, v, ref, h) == [err |-> e, v |-> v, ref |-> ref, h |-> h]
Fail(e, h) == Res(e, Null, 0, h)

\* eval.go:119
evalLiteral(i, h) ==
  CASE i.type = "Integer" -> Res(Nil, IntV(i.val, kwAno), 0, h)
    [] i.type = "Float" ->
         Res(Nil, Value("Real", Halves(i.val), kwAno, 0, "nil"), 0, h)
    [] i.type = "Bool" -> Res(Nil, anonymousBool(i.val), 0, h)
    [] i.type = "Text" -> Res(Nil, Value("String", i.val, kwAno, 0, "nil"), 0, h)
    [] OTHER -> Fail(Err("unsupported token"), h)

\* eval.go:163
evalIdentifier(i, h) ==
  IF i.type # "Internal"
  THEN LET a == ResolveValue(h, i.id)
       IN IF a = 0 THEN Fail(Err("undefined"), h) ELSE Res(Nil, h[a], a, h)
  ELSE LET r == ResolveInternal(i.id) IN Res(r.err, r.v, 0, h)

\* values.go  reverse of each kind
reverse(v) ==
  CASE v.kind \in {"Int", "Real"} -> [err |-> Nil, v |-> [v EXCEPT !.raw = -v.raw]]
    [] v.kind = "Null" -> [err |-> Nil, v |-> v]
    [] OTHER -> [err |-> ErrUnsupported, v |-> Null]

\* values.go  add, subtract and divide of each kind (the result is a copy of
\* the left operand with a new Raw).  An integer division by zero is a
\* run-time fault; the model divides Int and Uint values only.
arith(op, l, r) ==
  CASE l.kind = "Null" ->
         IF r.kind = "Null" THEN [err |-> Nil, v |-> r]
         ELSE [err |-> ErrIncompatible, v |-> Null]
    [] l.kind \in {"Boolean", "Bytes", "String"} ->
         [err |-> ErrUnsupported, v |-> Null]
    [] OTHER ->
         IF ~isCompatible(l, r) THEN [err |-> ErrIncompatible, v |-> Null]
         ELSE LET wrap(y) == IF l.kind = "Uint" THEN y % UintWrap ELSE y
                  apply(x) ==
                    CASE op = "+" -> [err |-> Nil, v |-> [l EXCEPT !.raw = wrap(l.raw + x)]]
                      [] op = "-" -> [err |-> Nil, v |-> [l EXCEPT !.raw = wrap(l.raw - x)]]
                      [] op = "/" /\ l.kind # "Real" ->
                           IF x = 0 THEN [err |-> Panic, v |-> Null]
                           ELSE [err |-> Nil, v |-> [l EXCEPT !.raw = wrap(GoDiv(l.raw, x))]]
              IN apply(CASE l.kind = "Int" -> asInt(r)
                         [] l.kind = "Uint" -> asUint(r)
                         [] OTHER -> asReal(r))

\* eval.go:218  the verdict of a relational operator on the result of Cmp
relation(op, cmp) ==
  CASE op = "==" -> cmp = 0
    [] op = "!=" -> cmp # 0
    [] op = "<" -> cmp < 0
    [] op = "<=" -> cmp = 0 \/ cmp < 0
    [] op = ">" -> cmp > 0
    [] OTHER -> cmp = 0 \/ cmp > 0

RECURSIVE eval(_, _)
\* eval.go:85-98, 170-249  both operands are evaluated, left first
evalBinary(b, h) ==
  LET l == eval(b.Left, h)
  IN IF l.err # Nil THEN Fail(l.err, l.h)
     ELSE LET r == eval(b.Right, l.h)
              \* the left value is read through its pointer after the right
              \* operand was evaluated
              lv == IF l.ref = 0 THEN l.v ELSE r.h[l.ref]
          IN IF r.err # Nil THEN Fail(r.err, r.h)
             ELSE CASE b.operator \in {"==", "!=", "<", "<=", ">", ">="} ->
                         Res(Nil, anonymousBool(relation(b.operator, Cmp(lv, r.v))), 0, r.h)
                    [] b.operator = "&&" ->
                         Res(Nil, anonymousBool(asBool(lv) /\ asBool(r.v)), 0, r.h)
                    [] b.operator = "||" ->
                         Res(Nil, anonymousBool(asBool(lv) \/ asBool(r.v)), 0, r.h)
                    [] b.operator \in {"+", "-", "/"} ->
                         LET a == arith(b.operator, lv, r.v)
                         IN Res(a.err, a.v, 0, r.h)
                    [] OTHER -> Fail(Err("unsupported operator"), r.h)

\* eval.go:100
evalUnary(u, h) ==
  LET r == eval(u.Right, h)
  IN IF r.err # Nil THEN Fail(r.err, r.h)
     ELSE CASE u.operator = "!" -> Res(Nil, anonymousBool(~asBool(r.v)), 0, r.h)
            [] u.operator = "-" ->
                 LET x == reverse(r.v) IN Res(x.err, x.v, 0, r.h)
            [] OTHER -> Fail(Err("unsupported operator"), r.h)

\* eval.go:76  setId acts on the value the right operand points to
evalAssign(a, h) ==
  LET r == eval(a.right, h)
  IN IF r.err # Nil THEN Fail(r.err, r.h)
     ELSE IF r.ref = 0 THEN Res(Nil, [r.v EXCEPT !.id = a.left], 0, r.h)
     ELSE LET h2 == [r.h EXCEPT ![r.ref].id = a.left]
          IN Res(Nil, h2[r.ref], r.ref, h2)

\* the bytes of the identifiers and attribute names member accesses are
\* written with
Ascii ==
  [x |-> <<120>>, s |-> <<115>>, y |-> <<121>>, nope |-> <<110, 111, 112, 101>>,
   raw |-> <<114, 97, 119>>, eng |-> <<101, 110, 103>>, id |-> <<105, 100>>,
   pos |-> <<112, 111, 115>>, len |-> <<108, 101, 110>>]
\* nodes.go:274  Member.String(): "ref.attr"
MemberString(m) == Ascii[m.ref] \o <<46>> \o Ascii[m.attr]

\* values.go:68  the engineering value of v, held at address ref
engOf(v, ref, h) ==
  IF v.eng = "nil" THEN Res(Nil, Null, 0, h) ELSE Res(Nil, v, ref, h)

\* eval.go:44  the attribute of the value x the reference resolved to
attributeOf(m, x, h) ==
  CASE m.attr = "raw" -> x
    [] m.attr = "eng" -> engOf(x.v, x.ref, h)
    [] m.attr = "id" ->
         Res(Nil, Value("String", MemberString(m), m.attr, 0, "nil"), 0, h)
    [] m.attr = "pos" -> Res(Nil, IntV(x.v.pos, m.attr), 0, h)
    [] OTHER -> Fail(Err("unknown attribute"), h)

\* eval.go:38
evalMember(m, h) ==
  LET x == evalIdentifier(Id(m.ref), h)
  IN IF x.err # Nil THEN Fail(x.err, h) ELSE attributeOf(m, x, h)

eval(e, h) ==
  CASE e.e = "nil" -> Res(Nil, Null, 0, h)
    [] e.e = "Binary" -> evalBinary(e, h)
    [] e.e = "Unary" -> evalUnary(e, h)
    [] e.e = "Literal" -> evalLiteral(e, h)
    [] e.e = "Identifier" -> evalIdentifier(e, h)
    [] e.e = "Assignment" -> evalAssign(e, h)
    [] e.e = "Member" -> evalMember(e, h)
    [] OTHER -> Fail(Err("unsupported expression"), h)


(***************************************************************************)
(* Buffer and bit extraction (decode.go).                                  *)
(***************************************************************************)
\* decode.go:134  reads with the cursor and the buffer as they are; the
\* reader hands over all it has, up to the length asked for
growBuffer(bits) ==
  LET pos == GoDiv(Pos + bits, numbit)
      want == ChunkLen + GoDiv(bits, numbit)
      n == Min2(want, Len(reader))
  IN IF bits > 0 /\ pos < Len(buffer)
     THEN [err |-> Nil, buffer |-> buffer, reader |-> reader]
     ELSE IF want < 0
     THEN [err |-> Panic, buffer |-> buffer, reader |-> reader]
     ELSE [err |-> Nil,
           buffer |-> buffer \o SubSeq(reader, 1, n),
           reader |-> SubSeq(reader, n + 1, Len(reader))]

\* decode.go:886
numbytes(bits) ==
  LET n == numbit - GoMod(bits - 1, numbit) IN GoDiv(bits + n, numbit)

RECURSIVE Reverse(_)
Reverse(s) == IF s = << >> THEN << >> ELSE Append(Reverse(Tail(s)), Head(s))

\* decode.go:859
swapBytes(buf, e) ==
  IF e = "little" /\ Len(buf) <= 8 /\ Len(buf) % 2 = 0 THEN Reverse(buf) ELSE buf

\* x >> uint64(shift): a negative shift is a count of 2^64 - |shift|
ShiftRight(x, shift) ==
  IF shift < 0 \/ shift >= 64 THEN 0 ELSE x \div Pow2(shift)

\* x & mask for a mask of the form 2^k - 1, or -1 (all bits set)
AndMask(x, mask) == IF mask < 0 THEN x ELSE x % (mask + 1)

\* decode.go:879-882  the bytes as one big-endian integer
RECURSIVE compose(_)
compose(buf) ==
  IF buf = << >> THEN 0
  ELSE LET k == Len(buf)
       IN compose(SubSeq(buf, 1, k - 1)) * Pow2(numbit) + buf[k]

\* decode.go:874
btoi(buf, shift, mask) == AndMask(ShiftRight(compose(buf), shift), mask)

\* decode.go:508-513  1 << bits is 0 once bits reaches the word size; a
\* mask of more than 30 bits keeps every bit of the values held here
maskOf(bits) ==
  IF bits > 1 THEN (IF bits > 30 THEN 0 ELSE Pow2(bits)) - 1 ELSE 1

\* decode.go:504  (schemas of the model hold int and uint parameters)
decodeNumber(p, buf, bits, index, offset) ==
  LET need == numbytes(bits)
      shift == (numbit * need) - (offset + bits)
      mask == maskOf(bits)
  IN IF Len(buf) < index + need THEN [err |-> errShort, v |-> Null]
     ELSE IF index < 0 \/ need < 0 THEN [err |-> Panic, v |-> Null]
     ELSE LET span == swapBytes(SubSeq(buf, index + 1, index + need), p.endian)
              dat == btoi(span, shift, mask)
          IN [err |-> Nil,
              v |-> Value(IF p.kind = "uint" THEN "Uint" ELSE "Int",
                          dat, p.id, Pos, "nil")]

RECURSIVE TrimLeft(_)
TrimLeft(s) == IF s # << >> /\ Head(s) = 0 THEN TrimLeft(Tail(s)) ELSE s
\* strings.Trim(s, "\x00")
TrimNul(s) == Reverse(TrimLeft(Reverse(TrimLeft(s))))

\* decode.go:478
decodeBytes(p, buf, bits, index) ==
  IF Len(buf) < index + bits THEN [err |-> errShort, v |-> Null]
  ELSE IF index < 0 \/ bits < 0 THEN [err |-> Panic, v |-> Null]
  ELSE LET str == SubSeq(buf, index + 1, index + bits)
       IN IF p.kind = "bytes"
          THEN [err |-> Nil, v |-> Value("Bytes", str, p.id, Pos, "nil")]
          ELSE [err |-> Nil, v |-> Value("String", TrimNul(str), p.id, Pos, "nil")]

\* decode.go:422-434  the size of a parameter: [err, bits]
sizeOf(p, h) ==
  CASE p.size.type \in {"Ident", "Text"} ->
         LET a == ResolveValue(h, p.size.lit)
         IN IF a = 0 THEN [err |-> Err("undefined"), bits |-> 0]
            ELSE [err |-> Nil, bits |-> asInt(h[a])]
    [] p.size.type = "Integer" -> [err |-> Nil, bits |-> p.size.lit]
    [] OTHER -> [err |-> Err("unexpected token"), bits |-> 0]

\* the result of decodeParameter: the error, the value, the size resolved,
\* and the buffer, the reader, the heap and the cursor it leaves
ParamRes(e, v, bits, g, h, pos) ==
  [err |-> e, v |-> v, bits |-> bits, buffer |-> g.buffer,
   reader |-> g.reader, h |-> h, Pos |-> pos]

\* a variant of expectAndMove that moves the cursor by the size as written,
\* without the factor of decode.go:451: C1 does not hold of it
moveBySize(p, raw, bits, adv, g, h) == ParamRes(Nil, raw, bits, g, h, Pos + bits)

\* decode.go:464-475  the expectation, then the move of the cursor
expectAndMove(p, raw, bits, adv, g, h) ==
  IF p.expect = NoExpr THEN ParamRes(Nil, raw, bits, g, h, Pos + adv)
  ELSE LET x == eval(p.expect, h)
       IN IF x.err # Nil THEN ParamRes(x.err, Null, bits, g, x.h, Pos)
          ELSE IF Cmp(raw, x.v) # 0
          THEN ParamRes(Err("expect"), Null, bits, g, x.h, Pos)
          ELSE ParamRes(Nil, raw, bits, g, x.h, Pos + adv)

\* decode.go:415
decodeParameter(p) ==
  LET offset == GoMod(Pos, numbit)
      index == GoDiv(Pos, numbit)
      sz == sizeOf(p, heap)
      bits == sz.bits
      same == [err |-> Nil, buffer |-> buffer, reader |-> reader]
      g == growBuffer(bits * numbit)
  IN IF sz.err # Nil THEN ParamRes(sz.err, Null, bits, same, heap, Pos)
     ELSE IF p.kind \in {"bytes", "string"}
     THEN IF offset # 0 THEN ParamRes(Err("offset"), Null, bits, same, heap, Pos)
          ELSE IF g.err # Nil THEN ParamRes(g.err, Null, bits, g, heap, Pos)
          ELSE LET r == decodeBytes(p, g.buffer, bits, index)
               IN IF r.err # Nil THEN ParamRes(r.err, Null, bits, g, heap, Pos)
                  ELSE expectAndMove(p, r.v, bits, bits * numbit, g, heap)
     ELSE IF g.err # Nil THEN ParamRes(g.err, Null, bits, g, heap, Pos)
          ELSE LET r == decodeNumber(p, g.buffer, bits, index, offset)
               IN IF r.err # Nil THEN ParamRes(r.err, Null, bits, g, heap, Pos)
                  \* evalApply without a pair: v.Set(v)
                  ELSE expectAndMove(p, [r.v EXCEPT !.eng = "self"], bits,
                                     bits, g, heap)

\* a variant of decodeSeek without the range check of decode.go:662: C7
\* does not hold of it
seekUnchecked(n) ==
  LET x == eval(n.offset, heap)
      seek == asInt(x.v)
      same == [err |-> Nil, buffer |-> buffer, reader |-> reader]
  IN ParamRes(x.err, Null, seek, same, x.h,
              IF x.err # Nil THEN Pos ELSE IF n.absolute THEN seek ELSE Pos + seek)

\* decode.go:648  the cursor moves before the range is checked
decodeSeek(n) ==
  LET x == eval(n.offset, heap)
      seek == asInt(x.v)
      g == growBuffer(seek)
      pos == IF n.absolute THEN seek ELSE Pos + seek
      same == [err |-> Nil, buffer |-> buffer, reader |-> reader]
  IN IF x.err # Nil THEN ParamRes(x.err, Null, 0, same, x.h, Pos)
     ELSE IF g.err # Nil THEN ParamRes(g.err, Null, seek, g, x.h, Pos)
     ELSE IF pos < 0 \/ pos > Len(g.buffer) * numbit
     THEN ParamRes(Err("seek"), Null, seek, g, x.h, pos)
     ELSE ParamRes(Nil, Null, seek, g, x.h, pos)

\* decode.go:637
decodeBreak(n) ==
  LET x == eval(n.expr, heap)
  IN IF x.err # Nil THEN [err |-> x.err, h |-> x.h]
     ELSE [err |-> IF isTrue(x.v) THEN errBreak ELSE Nil, h |-> x.h]

\* decode.go:626
decodeContinue(n) ==
  LET x == eval(n.expr, heap)
  IN IF x.err # Nil THEN [err |-> x.err, h |-> x.h]
     ELSE [err |-> IF isTrue(x.v) THEN errContinue ELSE Nil, h |-> x.h]

\* decode.go:552  (the parser admits an integer literal only)
decodeExit(e) ==
  IF e.code.type = "Integer" THEN ExitError(e.code.lit)
  ELSE Err("unexpected token")

\* decode.go:222  the index moves on after a removal
RECURSIVE DeleteFrom(_, _, _)
DeleteFrom(vs, n, i) ==
  IF i > Len(vs) THEN vs
  ELSE IF heap[vs[i]].id = n
  THEN DeleteFrom(SubSeq(vs, 1, i - 1) \o SubSeq(vs, i + 1, Len(vs)), n, i + 1)
  ELSE DeleteFrom(vs, n, i + 1)
DeleteValue(vs, n) == DeleteFrom(vs, n, 1)

\* decode.go:284-290
RECURSIVE deleteAll(_, _)
deleteAll(vs, ids) ==
  IF ids = << >> THEN vs ELSE deleteAll(DeleteValue(vs, Head(ids)), Tail(ids))

\* nodes.go:621 on the Block embedded in state, which execute.go:72 leaves
\* empty: no block is found by name
ResolveBlock(id) == [err |-> Err("block not defined"), dat |-> Block("", << >>)]

\* decode.go:673-681, 747-752  the block a repeat or an include runs
bodyOf(node) ==
  IF node.t = "Block" THEN [err |-> Nil, dat |-> node] ELSE ResolveBlock(node.id)


(***************************************************************************)
(* Repeat (decode.go:668-731).                                             *)
(***************************************************************************)
\* decode.go:668, 696, 711-718  up to the first run of the body: whether
\* the body is entered, and how many times a counted repeat runs it
decodeRepeat(n) ==
  LET b == bodyOf(n.node)
      x == eval(n.repeat, heap)
      count == IF asUint(x.v) = 0 THEN 1 ELSE asUint(x.v)
  IN IF b.err # Nil THEN [err |-> b.err, enter |-> FALSE, n |-> 0, h |-> heap]
     ELSE IF x.err # Nil THEN [err |-> x.err, enter |-> FALSE, n |-> 0, h |-> x.h]
     ELSE IF isBoolean(n.repeat)
     THEN [err |-> Nil, enter |-> isTrue(x.v), n |-> 0, h |-> x.h]
     ELSE [err |-> Nil, enter |-> TRUE, n |-> count, h |-> x.h]

\* a variant of evalRepeatUint that goes on to the next turn after a break
\* as it does after a continue: C3 does not hold of it
repeatThroughBreak(f, e) ==
  IF e # Nil /\ e # errContinue /\ e # errBreak
  THEN [again |-> FALSE, err |-> e, h |-> heap]
  ELSE IF f.i + 1 < f.n THEN [again |-> TRUE, err |-> Nil, h |-> heap]
  ELSE [again |-> FALSE, err |-> Nil, h |-> heap]

\* decode.go:719-730  evalRepeatUint after the body returned e in turn i
\* of n: whether the body runs again, and the error returned if not
evalRepeatUint(f, e) ==
  IF e # Nil /\ e # errContinue
  THEN [again |-> FALSE, err |-> IF e = errBreak THEN Nil ELSE e, h |-> heap]
  ELSE IF f.i + 1 < f.n THEN [again |-> TRUE, err |-> Nil, h |-> heap]
  ELSE [again |-> FALSE, err |-> e, h |-> heap]

\* decode.go:696-707  evalRepeatBool after the body returned e: the post
\* statement of the loop evaluates the expression again
evalRepeatBool(f, e) ==
  LET x == eval(f.expr, heap)
  IN IF e # Nil /\ e # errContinue
     THEN [again |-> FALSE, err |-> IF e = errBreak THEN Nil ELSE e, h |-> heap]
     ELSE IF x.err # Nil THEN [again |-> FALSE, err |-> x.err, h |-> x.h]
     ELSE [again |-> isTrue(x.v), err |-> Nil, h |-> x.h]

\* a variant of decodeInclude that ignores the verdict of the predicate:
\* C10 does not hold of it
includeAlways(n) ==
  LET x == eval(n.cond, heap)
      b == bodyOf(n.node)
  IN IF n.cond # NoExpr /\ x.err # Nil THEN [err |-> x.err, h |-> x.h, dat |-> b.dat]
     ELSE [err |-> b.err, h |-> x.h, dat |-> b.dat]

\* decode.go:733-742  the predicate of an include
decodeInclude(n) ==
  LET x == eval(n.cond, heap)
      b == bodyOf(n.node)
  IN IF n.cond # NoExpr /\ x.err # Nil THEN [err |-> x.err, h |-> x.h, dat |-> b.dat]
     ELSE IF n.cond # NoExpr /\ ~isTrue(x.v) THEN [err |-> ErrSkip, h |-> x.h, dat |-> b.dat]
     ELSE [err |-> b.err, h |-> x.h, dat |-> b.dat]

\* decode.go:124  the buffer after a pass, "panic" when the slice is out of range
reset ==
  LET offset == GoDiv(Pos, numbit)
  IN IF offset < Len(buffer)
     THEN IF offset < 0 THEN [err |-> Panic, buffer |-> buffer]
          ELSE [err |-> Nil, buffer |-> SubSeq(buffer, offset + 1, Len(buffer))]
     ELSE [err |-> Nil, buffer |-> << >>]

(***************************************************************************)
(* Frames.  A block frame is a call of decodeBlock at statement i of       *)
(* nodes; a repeat frame is a call of evalRepeatUint / evalRepeatBool      *)
(* waiting for the body to return, in turn i of n.                         *)
(***************************************************************************)
BlockFrame(dat) ==
  [f |-> "block", id |-> dat.id, nodes |-> dat.nodes, i |-> 1, n |-> 0,
   expr |-> NoExpr, bool |-> FALSE]
RepeatFrame(r, dat, n) ==
  [f |-> "repeat", id |-> dat.id, nodes |-> dat.nodes, i |-> 0, n |-> n,
   expr |-> r.repeat, bool |-> isBoolean(r.repeat)]

Top == stack[Len(stack)]
Pop(s) == SubSeq(s, 1, Len(s) - 1)
\* a statement of the running block is about to execute
Running ==
  /\ pc = "pass" /\ err = Nil /\ stack # << >>
  /\ Top.f = "block" /\ Top.i <= Len(Top.nodes)
Node == Top.nodes[Top.i]
\* the running block moves to its next statement
Advance == [stack EXCEPT ![Len(stack)].i = @ + 1]
\* the running block returns (decode.go:262, 264, 274)
Return == [stack EXCEPT ![Len(stack)].i = Len(Top.nodes) + 1]
\* what a step leaves in last: the operation, the cursor and the error in
\* flight before it, the size and the kind of the parameter it decoded
Step(op, bits, kind) ==
  [op |-> op, pos0 |-> Pos, err0 |-> err, size |-> bits, kind |-> kind]

MaxLoop == 3      \* passes of Run the model follows

(***************************************************************************)
(* Run (decode.go:91).                                                     *)
(***************************************************************************)
\* decode.go:94-100  grow the buffer, stop on an empty one, else start a pass
RunGrow ==
  /\ pc = "grow"
  /\ LET g == growBuffer(ChunkLen)
     IN /\ buffer' = g.buffer
        /\ reader' = g.reader
        /\ IF g.err # Nil
           THEN pc' = "done" /\ result' = g.err /\ UNCHANGED <<stack, blocks>>
           ELSE IF Len(g.buffer) * numbit = 0
           THEN pc' = "done" /\ result' = Nil /\ UNCHANGED <<stack, blocks>>
           ELSE /\ pc' = "pass"
                /\ stack' = <<BlockFrame(data)>>
                /\ blocks' = Append(blocks, data.id)
                /\ UNCHANGED result
  /\ last' = Step("Grow", 0, "")
  /\ UNCHANGED <<data, Pos, Loop, Values, heap, err>>
  /\ UNCHANGED apart

\* decode.go:100-107  the pass returned: an error ends Run, else reset
RunPassEnd ==
  /\ pc = "pass" /\ stack = << >>
  /\ IF err # Nil
     THEN /\ pc' = "done"
          /\ result' = IF err = ErrDone THEN Nil ELSE err
          /\ UNCHANGED <<buffer, Loop, Values, heap, Pos>>
     ELSE IF reset.err # Nil
     THEN /\ pc' = "done" /\ result' = reset.err /\ Loop' = Loop + 1
          /\ UNCHANGED <<buffer, Values, heap, Pos>>
     ELSE /\ Loop < MaxLoop
          /\ pc' = "grow"
          /\ Loop' = Loop + 1
          /\ buffer' = reset.buffer
          /\ Values' = << >>
          /\ heap' = << >>
          /\ Pos' = 0
          /\ UNCHANGED result
  /\ err' = Nil
  /\ last' = Step("PassEnd", 0, "")
  /\ UNCHANGED <<data, reader, blocks, stack>>
  /\ UNCHANGED apart

(***************************************************************************)
(* decodeBlock (decode.go:256): one action for each kind of statement.     *)
(***************************************************************************)
\* decode.go:256-258  a call of decodeBlock
Call(s, dat) == Append(s, BlockFrame(dat))

\* decode.go:258, 335-336  decodeBlock returns: at the end of its list, or
\* with the error of a statement
BlockReturn ==
  /\ pc = "pass" /\ stack # << >> /\ Top.f = "block"
  /\ err # Nil \/ Top.i > Len(Top.nodes)
  /\ stack' = Pop(stack)
  /\ blocks' = Pop(blocks)
  /\ last' = Step("BlockReturn", 0, "")
  /\ UNCHANGED <<data, reader, buffer, Pos, Loop, Values, heap, err, pc, result>>
  /\ UNCHANGED apart

\* decode.go:303-322
DecodeParameter ==
  /\ Running /\ Node.t = "Parameter"
  /\ LET r == decodeParameter(Node)
     IN /\ buffer' = r.buffer
        /\ reader' = r.reader
        /\ err' = r.err
        /\ Pos' = r.Pos
        /\ IF r.err = Nil
           THEN /\ heap' = Append(r.h, r.v)
                /\ Values' = Append(Values, Len(r.h) + 1)
                /\ stack' = Advance
           ELSE heap' = r.h /\ UNCHANGED <<Values, stack>>
        /\ last' = Step("Parameter", r.bits, Node.kind)
  /\ UNCHANGED <<data, Loop, blocks, pc, result>>
  /\ UNCHANGED apart

\* decode.go:275-282
DecodeLet ==
  /\ Running /\ Node.t = "Let"
  /\ LET r == eval(Node.expr, heap)
     IN /\ err' = r.err
        /\ IF r.err # Nil THEN heap' = r.h /\ UNCHANGED <<Values, stack>>
           ELSE /\ stack' = Advance
                /\ IF r.ref = 0
                   THEN /\ heap' = Append(r.h, r.v)
                        /\ Values' = Append(Values, Len(r.h) + 1)
                   ELSE /\ heap' = r.h
                        /\ Values' = Append(Values, r.ref)
  /\ last' = Step("Let", 0, "")
  /\ UNCHANGED <<data, reader, buffer, Pos, Loop, blocks, pc, result>>
  /\ UNCHANGED apart

\* decode.go:283-290
DecodeDel ==
  /\ Running /\ Node.t = "Del"
  /\ Values' = deleteAll(Values, Node.ids)
  /\ stack' = Advance
  /\ last' = Step("Del", 0, "")
  /\ UNCHANGED <<data, reader, buffer, Pos, Loop, heap, blocks, err, pc, result>>
  /\ UNCHANGED apart

\* decode.go:291-294
DecodeSeek ==
  /\ Running /\ Node.t = "Seek"
  /\ LET r == decodeSeek(Node)
     IN /\ buffer' = r.buffer
        /\ reader' = r.reader
        /\ heap' = r.h
        /\ Pos' = r.Pos
        /\ err' = r.err
        /\ stack' = IF r.err = Nil THEN Advance ELSE stack
        /\ last' = Step("Seek", r.bits, "")
  /\ UNCHANGED <<data, Loop, Values, blocks, pc, result>>
  /\ UNCHANGED apart

\* decode.go:261-262
DecodeBreak ==
  /\ Running /\ Node.t = "Break"
  /\ LET r == decodeBreak(Node)
     IN err' = r.err /\ heap' = r.h
  /\ stack' = Return
  /\ last' = Step("Break", 0, "")
  /\ UNCHANGED <<data, reader, buffer, Pos, Loop, Values, blocks, pc, result>>
  /\ UNCHANGED apart

\* decode.go:263-264
DecodeContinue ==
  /\ Running /\ Node.t = "Continue"
  /\ LET r == decodeContinue(Node)
     IN err' = r.err /\ heap' = r.h
  /\ stack' = Return
  /\ last' = Step("Continue", 0, "")
  /\ UNCHANGED <<data, reader, buffer, Pos, Loop, Values, blocks, pc, result>>
  /\ UNCHANGED apart

\* decode.go:273-274
DecodeExit ==
  /\ Running /\ Node.t = "Exit"
  /\ err' = decodeExit(Node)
  /\ stack' = Return
  /\ last' = Step("Exit", 0, "")
  /\ UNCHANGED <<data, reader, buffer, Pos, Loop, Values, heap, blocks, pc, result>>
  /\ UNCHANGED apart

\* decode.go:295-298  the repeat statement up to the first run of its body
DecodeRepeat ==
  /\ Running /\ Node.t = "Repeat"
  /\ LET r == decodeRepeat(Node)
     IN /\ err' = r.err
        /\ heap' = r.h
        /\ IF r.err # Nil THEN UNCHANGED <<stack, blocks>>
           ELSE IF ~r.enter THEN stack' = Advance /\ UNCHANGED blocks
           ELSE /\ stack' = Call(Append(Advance, RepeatFrame(Node, Node.node, r.n)),
                                 Node.node)
                /\ blocks' = Append(blocks, Node.node.id)
  /\ last' = Step("Repeat", 0, "")
  /\ UNCHANGED <<data, reader, buffer, Pos, Loop, Values, pc, result>>
  /\ UNCHANGED apart

\* decode.go:696-707, 719-730  the body of a repeat returned
RepeatReturn ==
  /\ pc = "pass" /\ stack # << >> /\ Top.f = "repeat"
  /\ LET r == IF Top.bool THEN evalRepeatBool(Top, err) ELSE evalRepeatUint(Top, err)
     IN /\ heap' = r.h
        /\ err' = r.err
        /\ IF r.again
           THEN /\ stack' = Call([stack EXCEPT ![Len(stack)].i = @ + 1],
                                 [id |-> Top.id, nodes |-> Top.nodes])
                /\ blocks' = Append(blocks, Top.id)
                /\ last' = Step("RepeatAgain", 0, "")
           ELSE /\ stack' = Pop(stack)
                /\ last' = Step("RepeatExit", 0, "")
                /\ UNCHANGED blocks
  /\ UNCHANGED <<data, reader, buffer, Pos, Loop, Values, pc, result>>
  /\ UNCHANGED apart

\* decode.go:327-331  an include: skipped, failed, or its block called
DecodeInclude ==
  /\ Running /\ Node.t = "Include"
  /\ LET r == decodeInclude(Node)
     IN /\ heap' = r.h
        /\ IF r.err = ErrSkip
           THEN err' = Nil /\ stack' = Advance /\ UNCHANGED blocks
                /\ last' = Step("IncludeSkip", 0, "")
           ELSE IF r.err # Nil
           THEN err' = r.err /\ UNCHANGED <<stack, blocks>>
                /\ last' = Step("Include", 0, "")
           ELSE /\ err' = Nil
                /\ stack' = Call(Advance, r.dat)
                /\ blocks' = Append(blocks, r.dat.id)
                /\ last' = Step("Include", 0, "")
  /\ UNCHANGED <<data, reader, buffer, Pos, Loop, Values, pc, result>>
  /\ UNCHANGED apart

\* decode.go:323-326  a nested block
DecodeBlock ==
  /\ Running /\ Node.t = "Block"
  /\ stack' = Call(Advance, Node)
  /\ blocks' = Append(blocks, Node.id)
  /\ last' = Step("Block", 0, "")
  /\ UNCHANGED <<data, reader, buffer, Pos, Loop, Values, heap, err, pc, result>>
  /\ UNCHANGED apart


(***************************************************************************)
(* Schemas and inputs.  The parser (parse.go) admits break and continue    *)
(* inside a repeat only (parse.go:488-535), an integer literal after exit  *)
(* (parse.go:961) and an integer literal as the size of a short field      *)
(* (parse.go:1215); a size taken from a field uses the long form           *)
(* (parse.go:1128).                                                        *)
(***************************************************************************)
Data(nodes) == Block("data", nodes)
Body(nodes) == Block("", nodes)
Neg(n) == Unary("-", Num(n))
Eq(l, r) == Binary("==", l, r)

\* data ( a: uint k, b: uint n ): b is a window of n bits at offset k
Window(k, n) == Data(<<Field("a", "uint", k), Field("b", "uint", n)>>)
One(n) == Data(<<Field("b", "int", n)>>)
WindowSchemas ==
  {Window(k, n) : k \in 1..MaxOffset, n \in 1..MaxBits}
    \cup {One(n) : n \in 1..MaxBits}

\* data ( repeat[5] ( v: uint 8, break[v == 0] ) )
S6Schema ==
  Data(<<Repeat(Num(5), Body(<<Field("v", "uint", 8), Break(Eq(Id("v"), Num(0)))>>))>>)
S6Input == <<1, 2, 0, 170>>

RepeatSchemas ==
  { S6Schema,
    \* a break in the inner of two repeats
    Data(<<Repeat(Num(2), Body(<<
             Repeat(Num(3), Body(<<Field("v", "uint", 8),
                                   Break(Eq(Id("v"), Num(0)))>>)),
             Field("w", "uint", 8)>>))>>),
    \* a break inside an include inside a repeat
    Data(<<Repeat(Num(2), Body(<<
             Field("v", "uint", 8),
             Include(Eq(Id("v"), Num(1)), Body(<<Break(Lit("Bool", TRUE))>>)),
             Field("w", "uint", 8)>>)),
           Field("z", "uint", 8)>>),
    Data(<<Repeat(Num(2), Body(<<Field("v", "uint", 8),
                                 Continue(Eq(Id("v"), Num(0))),
                                 Field("w", "uint", 8)>>))>>),
    Data(<<Repeat(Num(0), Body(<<Field("v", "uint", 8),
                                 Continue(Lit("Bool", TRUE))>>))>>),
    Data(<<Repeat(Binary("<", Internal("Pos"), Internal("Size")),
                  Body(<<Field("v", "uint", 8), Continue(Eq(Id("v"), Num(0))),
                         Field("w", "uint", 8)>>))>>),
    Data(<<Repeat(Binary("<", Internal("Pos"), Internal("Size")),
                  Body(<<Field("v", "uint", 8), Break(Eq(Id("v"), Num(1)))>>)),
           Field("z", "uint", 8)>>),
    Data(<<Repeat(Id("nope"), Body(<<Field("v", "uint", 8)>>))>>),
    \* the iteration counter read in the body
    Data(<<Repeat(Num(2), Body(<<Field("v", "uint", 8),
                                 Let("i", Internal("Iter"))>>))>>) }

ExitSchemas ==
  { Data(<<Field("v", "uint", 8), Exit(0)>>),
    Data(<<Field("v", "uint", 8), Exit(2)>>),
    Data(<<Repeat(Num(2), Body(<<Field("v", "uint", 8), Exit(0)>>))>>),
    Data(<<Field("v", "uint", 8),
           Include(Eq(Id("v"), Num(1)), Body(<<Exit(3)>>))>>) }

SeekOffsets == {Neg(16), Neg(8), Neg(3), Num(0), Num(4), Num(8), Num(16), Num(20)}
SeekSchemas ==
  {Data(<<Field("a", "uint", 8), Seek(o, abs), Field("b", "uint", 4)>>) :
     o \in SeekOffsets, abs \in BOOLEAN}
    \cup {Data(<<Seek(Id("nope"), FALSE)>>)}

\* data ( let n = <size> ; x as <kind> with n )
SizeOffsets == {Neg(8), Neg(1), Num(0), Num(1), Num(3)}
SizeSchemas ==
  {Data(<<Field("a", "uint", 8), Let("n", o), FieldWith("x", k, "n")>>) :
     o \in SizeOffsets, k \in {"uint", "bytes"}}
    \cup {Data(<<Let("n", o), FieldWith("x", "uint", "n")>>) : o \in SizeOffsets}
    \cup {Data(<<FieldWith("x", "uint", "nope")>>)}

BytesSchemas ==
  { Data(<<Field("s", "string", 2), Field("t", "bytes", 1)>>),
    Data(<<Field("a", "uint", 4), Field("s", "bytes", 1)>>),
    Data(<<Parameter("a", "uint", Token("Integer", 16), "little", NoExpr),
           Field("b", "uint", 8)>>),
    Data(<<Parameter("a", "uint", Token("Integer", 8), "", Num(1)),
           Field("b", "uint", 8)>>),
    \* an expectation of another kind than the parameter
    Data(<<Parameter("a", "uint", Token("Integer", 8), "", Lit("Text", <<97>>)),
           Field("b", "uint", 8)>>) }

IncludeSchemas ==
  { Data(<<Field("a", "uint", 8),
           Include(Eq(Id("a"), Num(1)), Body(<<Field("b", "uint", 8)>>)),
           Field("c", "uint", 4)>>),
    Data(<<Field("a", "uint", 8),
           Include(NoExpr, Body(<<Field("b", "uint", 8)>>)),
           Field("c", "uint", 4)>>),
    Data(<<Field("a", "uint", 8),
           Include(Eq(Id("nope"), Num(1)), Body(<<Field("b", "uint", 8)>>))>>),
    Data(<<Field("a", "uint", 8), Include(NoExpr, Reference("blk"))>>),
    Data(<<Block("hdr", <<Field("a", "uint", 8)>>), Field("b", "uint", 8)>>) }

EnvSchemas ==
  { Data(<<Field("x", "uint", 8), Let("y", Binary("+", Id("x"), Num(1))),
           Del(<<"x">>), Field("z", "uint", 8)>>),
    Data(<<Field("x", "uint", 8), Let("y", Id("x")), Field("z", "uint", 8)>>),
    Data(<<Field("x", "uint", 8),
           Let("y", Binary("+", Assignment("a", Id("x")), Id("nope")))>>),
    Data(<<Field("x", "uint", 8), Let("y", Id("nope")), Field("z", "uint", 8)>>),
    \* a deletion of two fields of one name, adjacent or apart
    Data(<<Repeat(Num(2), Body(<<Field("x", "uint", 8)>>)), Del(<<"x">>)>>),
    Data(<<Field("x", "uint", 8), Let("k", Num(1)), Field("x", "uint", 8),
           Del(<<"x">>)>>),
    \* a quotient and a remainder by a decoded value
    Data(<<Field("x", "uint", 8), Let("q", Binary("/", Num(6), Id("x"))),
           Field("z", "uint", 8)>>),
    Data(<<Field("x", "uint", 8), Let("q", Binary("%", Num(6), Id("x"))),
           Field("z", "uint", 8)>>),
    Data(<<Field("x", "uint", 8),
           Parameter("z", "uint", Token("Integer", 8), "",
                     Binary("+", Assignment("a", Id("x")), Num(1)))>>) }

Schemas ==
  WindowSchemas \cup RepeatSchemas \cup ExitSchemas \cup SeekSchemas
    \cup SizeSchemas \cup BytesSchemas \cup IncludeSchemas \cup EnvSchemas

Inputs == SeqsUpTo(ByteVals, MaxInput) \cup {S6Input}

(***************************************************************************)
(* Environment (env.go:1-80): a scope holds its fields in order and an     *)
(* index from identifier to position; a chain is a scope with its parents, *)
(* the outermost first.  Positions are counted from 0 as in the code.      *)
(***************************************************************************)
MaxOps == 4       \* defines and deletes applied to a chain
MaxDepth == 2     \* scopes of a chain

Names == {"a", "b"}
Absent == -1

\* env.go:19, 32
NewEnvironment == [lookup |-> [n \in Names |-> Absent], values |-> << >>]

\* env.go:74
Define(e, v) ==
  [lookup |-> [e.lookup EXCEPT ![v.id] = Len(e.values)],
   values |-> Append(e.values, v)]

\* env.go:53  on scope s of the chain; slicing from i + 1 past the length
\* is a run-time fault
RECURSIVE Delete(_, _, _, _)
Delete(chain, s, str, all) ==
  LET e == chain[s]
      i == e.lookup[str]
      cut == [chain EXCEPT ![s].values =
                SubSeq(e.values, 1, i) \o SubSeq(e.values, i + 2, Len(e.values))]
      c2 == IF i = Absent THEN chain ELSE cut
  IN IF i # Absent /\ i + 1 > Len(e.values) THEN [err |-> Panic, chain |-> chain]
     ELSE IF all /\ s > 1 THEN Delete(c2, s - 1, str, all)
     ELSE [err |-> Nil, chain |-> c2]

\* env.go:63  on scope s of the chain; indexing past the length is a
\* run-time fault
RECURSIVE Resolve(_, _, _)
Resolve(chain, s, str) ==
  LET e == chain[s]
      i == e.lookup[str]
  IN IF i # Absent
     THEN IF i >= Len(e.values) THEN [err |-> Panic, v |-> Null]
          ELSE [err |-> Nil, v |-> e.values[i + 1]]
     ELSE IF s = 1 THEN [err |-> Err("undefined"), v |-> Null]
     ELSE Resolve(chain, s - 1, str)

\* no chain is under check
NoChain ==
  /\ scopes = << >>
  /\ live = [all |-> << >>, last |-> << >>]
  /\ answer = [op |-> "none", s |-> 0, str |-> "", err |-> Nil, v |-> Null, n |-> 0]
\* no function is under check
NoProbe == probe = [f |-> "none"]
\* no destination file was referenced
NoSinks ==
  /\ files = << >> /\ handles = << >> /\ disk = << >> /\ sunk = << >>
\* no file is walked
NoWalk ==
  /\ walker = [pc |-> "none"] /\ queue = [closed |-> FALSE]
  /\ caller = [pc |-> "none"]
\* the decoder is not running
Idle ==
  /\ data = Data(<< >>) /\ reader = << >> /\ buffer = << >>
  /\ Pos = 0 /\ Loop = 0 /\ Values = << >> /\ heap = << >>
  /\ blocks = << >> /\ stack = << >> /\ err = Nil /\ pc = "done"
  /\ result = Nil
  /\ last = [op |-> "Reset", pos0 |-> 0, err0 |-> Nil, size |-> 0, kind |-> ""]

(***************************************************************************)
(* The state after Reset (decode.go:112) of a state built by Dissect       *)
(* (execute.go:35-43).                                                     *)
(***************************************************************************)
Init ==
  /\ data \in Schemas
  /\ reader \in Inputs
  /\ buffer = << >>
  /\ Pos = 0
  /\ Loop = 0
  /\ Values = << >>
  /\ heap = << >>
  /\ blocks = << >>
  /\ stack = << >>
  /\ err = Nil
  /\ pc = "grow"
  /\ result = Nil
  /\ last = [op |-> "Reset", pos0 |-> 0, err0 |-> Nil, size |-> 0, kind |-> ""]
  /\ NoChain /\ NoProbe /\ NoSinks /\ NoWalk

Next ==
  \/ RunGrow
  \/ RunPassEnd
  \/ BlockReturn
  \/ DecodeParameter
  \/ DecodeLet
  \/ DecodeDel
  \/ DecodeSeek
  \/ DecodeBreak
  \/ DecodeContinue
  \/ DecodeExit
  \/ DecodeRepeat
  \/ RepeatReturn
  \/ DecodeInclude
  \/ DecodeBlock

Spec == Init /\ [][Next]_vars


(***************************************************************************)
(* Properties.                                                             *)
(***************************************************************************)
\* the Environment as the fields it holds, in order
Env == [i \in 1..Len(Values) |-> heap[Values[i]]]
\* the field decoded last
Newest == heap[Values[Len(Values)]]
\* bit i of the buffer, bit 0 being the most significant bit of byte 0
Bit(buf, i) == (buf[(i \div numbit) + 1] \div Pow2(numbit - 1 - (i % numbit))) % 2
\* the bits [p, p + n) of the buffer, most significant first
RECURSIVE BitsAt(_, _, _)
BitsAt(buf, p, n) ==
  IF n = 0 THEN 0 ELSE 2 * BitsAt(buf, p, n - 1) + Bit(buf, p + n - 1)
\* an error that is neither a control-flow signal nor an exit
Failed(e) == e.k \notin {"nil", "break", "continue", "exit"}
\* a parameter was decoded by the last step
Decoded == last.op = "Parameter" /\ err = Nil

\* C1: every successful parameter decode advances the cursor by exactly its
\* size: size bits for a numeric parameter, size * 8 bits for bytes and
\* strings.
C1_CursorAdvance ==
  Decoded =>
    Pos = last.pos0 + (IF last.kind \in {"bytes", "string"}
                       THEN last.size * numbit ELSE last.size)
\* a bytes parameter of one byte decoded at bit 8
C1_Witness ==
  Decoded /\ last.kind = "bytes" /\ last.size = 1 /\ last.pos0 = 8

\* C2: a numeric parameter of n bits (1 <= n <= 64) decoded at cursor p
\* yields the bits [p, p + n) of the buffer, most significant first, whatever
\* p mod 8 is, windows that cross a byte boundary included.
C2_BitWindow ==
  (/\ Decoded /\ data \in WindowSchemas
   /\ 1 <= last.size /\ last.size <= 64
   /\ last.pos0 + last.size <= Size) =>
    Newest.raw = BitsAt(buffer, last.pos0, last.size)

\* C3: a break whose predicate is true stops the innermost enclosing
\* repeat: while the signal is in flight nothing is decoded, every block on
\* the way returns, and the first repeat reached ends without a further
\* iteration and without an error.
C3_BreakStopsRepeat ==
  [][err = errBreak =>
       /\ stack # << >>
       /\ stack' = Pop(stack)
       /\ Pos' = Pos /\ Values' = Values /\ heap' = heap
       /\ err' = IF Top.f = "repeat" THEN Nil ELSE errBreak]_vars
\* repeat[5] ( v: uint 8, break[v == 0] ) on 01 02 00 AA: the repeat ended
\* on the break with v = 1, 2, 0 in the Environment and the cursor at 24
C3_Witness ==
  /\ data = S6Schema /\ buffer = S6Input
  /\ last.op = "RepeatExit" /\ last.err0 = errBreak /\ err = Nil
  /\ [i \in 1..Len(Values) |-> Env[i].raw] = <<1, 2, 0>>
  /\ \A i \in 1..Len(Values) : Env[i].id = "v"
  /\ Pos = 24

\* C4: a repeat consumes every break and continue signal raised in its
\* body, on any iteration, the last included: neither surfaces from Run.
C4_SignalsConsumed == pc = "done" => result \notin {errBreak, errContinue}

\* C5: exit 0 ends the run normally and the caller sees no error; exit n
\* with n # 0 surfaces as an error carrying n.
C5_ExitStatus ==
  (pc = "done" /\ last.err0.k = "exit") =>
    result = IF last.err0.code = 0 THEN Nil ELSE ExitError(last.err0.code)

\* C6: after each top-level pass that completes without error the leading
\* floor(cursor / 8) bytes of the buffer are discarded, the Environment is
\* empty, the cursor is 0 and the loop counter is one more.
C6_PassReset ==
  [][(pc = "pass" /\ stack = << >> /\ err = Nil) =>
       LET k == Pos \div numbit
       IN /\ 0 <= k /\ k <= Len(buffer)
          /\ buffer' = SubSeq(buffer, k + 1, Len(buffer))
          /\ Values' = << >>
          /\ Pos' = 0
          /\ Loop' = Loop + 1]_vars

\* C7: a seek, absolute or relative, leaves the cursor within
\* [0, size of the buffer in bits], or fails.
C7_SeekInRange ==
  (last.op = "Seek" /\ err = Nil) => (0 <= Pos /\ Pos <= Size)
\* a seek moved the cursor backwards, to a bit inside a byte
C7_Witness ==
  last.op = "Seek" /\ err = Nil /\ Pos < last.pos0 /\ Pos % numbit # 0

\* C8: within a pass the cursor never decreases except through a seek: no
\* parameter decode, its size a literal or resolved from a field, moves it
\* backwards.
C8_CursorMonotonic ==
  last.op \notin {"Seek", "PassEnd", "Reset"} => Pos >= last.pos0

\* C9: when a statement fails with an error the Environment holds exactly
\* the fields of the statements completed before it: the failing statement
\* adds no field, removes none and changes none.
C9_FailureKeepsEnv ==
  [][(Running /\ Failed(err')) => Env' = Env]_vars

\* C10: an include with a predicate decodes its target when the predicate
\* is truthy; when it is falsy nothing is decoded, no error is raised and
\* the enclosing block continues with its next statement.
C10_IncludePredicate ==
  [][(/\ Running /\ Node.t = "Include" /\ Node.cond # NoExpr
      /\ Node.node.t = "Block" /\ eval(Node.cond, heap).err = Nil) =>
       IF isTrue(eval(Node.cond, heap).v)
       THEN /\ err' = Nil
            /\ Len(stack') = Len(stack) + 1
            /\ stack'[Len(stack')].nodes = Node.node.nodes
            /\ stack'[Len(stack')].i = 1
       ELSE /\ err' = Nil
            /\ stack' = Advance
            /\ Pos' = Pos /\ Env' = Env /\ buffer' = buffer]_vars
\* an include was skipped on a falsy predicate and the statement after it
\* in the enclosing block was decoded
C10_Witness ==
  /\ Decoded /\ last.pos0 = 8 /\ Len(stack) = 1
  /\ Top.nodes[2].t = "Include" /\ Top.i = 4
  /\ Len(Values) = 2 /\ Env[1].raw # 1


(***************************************************************************)
(* A chain of Environments under defines, deletes and resolves.  live      *)
(* keeps what the operations mean, under both readings of a deletion by    *)
(* name: all the fields of that name leave the scope (all), or the one     *)
(* defined last does (last).                                               *)
(***************************************************************************)
Without(fs, str) == SelectSeq(fs, LAMBDA f : f.id # str)
LastOf(fs, str) ==
  LET I == {i \in 1..Len(fs) : fs[i].id = str}
  IN IF I = {} THEN 0 ELSE CHOOSE i \in I : \A j \in I : j <= i
WithoutLast(fs, str) ==
  LET i == LastOf(fs, str)
  IN IF i = 0 THEN fs ELSE SubSeq(fs, 1, i - 1) \o SubSeq(fs, i + 1, Len(fs))
\* the scopes a deletion on scope s reaches
Reach(s, all) == IF all THEN 1..s ELSE {s}
\* the field an identifier stands for in scope s of g: the one defined last
\* in the nearest scope that holds one
RECURSIVE Meaning(_, _, _)
Meaning(g, s, str) ==
  LET i == LastOf(g[s], str)
  IN IF i # 0 THEN [err |-> Nil, v |-> g[s][i]]
     ELSE IF s = 1 THEN [err |-> Err("undefined"), v |-> Null]
     ELSE Meaning(g, s - 1, str)

EnvInit ==
  /\ Idle /\ NoProbe /\ NoSinks /\ NoWalk
  /\ scopes = [s \in 1..MaxDepth |-> NewEnvironment]
  /\ live = [all |-> [s \in 1..MaxDepth |-> << >>],
             last |-> [s \in 1..MaxDepth |-> << >>]]
  /\ answer = [op |-> "new", s |-> 0, str |-> "", err |-> Nil, v |-> Null, n |-> 0]

EnvDefine ==
  /\ answer.err # Panic /\ answer.n < MaxOps
  /\ \E s \in 1..MaxDepth, str \in Names :
       LET v == IntV(answer.n + 1, str)
       IN /\ scopes' = [scopes EXCEPT ![s] = Define(@, v)]
          /\ live' = [all |-> [live.all EXCEPT ![s] = Append(@, v)],
                      last |-> [live.last EXCEPT ![s] = Append(@, v)]]
          /\ answer' = [op |-> "Define", s |-> s, str |-> str, err |-> Nil,
                        v |-> v, n |-> answer.n + 1]
  /\ UNCHANGED <<decoder, probe, sinks, walk>>

EnvDelete ==
  /\ answer.err # Panic /\ answer.n < MaxOps
  /\ \E s \in 1..MaxDepth, str \in Names, all \in BOOLEAN :
       LET r == Delete(scopes, s, str, all)
       IN /\ scopes' = r.chain
          /\ live' = [all |-> [k \in 1..MaxDepth |->
                                 IF k \in Reach(s, all)
                                 THEN Without(live.all[k], str) ELSE live.all[k]],
                      last |-> [k \in 1..MaxDepth |->
                                  IF k \in Reach(s, all)
                                  THEN WithoutLast(live.last[k], str)
                                  ELSE live.last[k]]]
          /\ answer' = [op |-> "Delete", s |-> s, str |-> str, err |-> r.err,
                        v |-> Null, n |-> answer.n + 1]
  /\ UNCHANGED <<decoder, probe, sinks, walk>>

EnvResolve ==
  /\ answer.err # Panic
  /\ \E s \in 1..MaxDepth, str \in Names :
       LET r == Resolve(scopes, s, str)
       IN answer' = [op |-> "Resolve", s |-> s, str |-> str, err |-> r.err,
                     v |-> r.v, n |-> answer.n]
  /\ UNCHANGED <<decoder, scopes, live, probe, sinks, walk>>

EnvNext == EnvDefine \/ EnvDelete \/ EnvResolve
EnvSpec == EnvInit /\ [][EnvNext]_vars

\* C11: after any sequence of defines and deletes, resolving an identifier
\* returns the field defined last under that identifier and not deleted,
\* from the scope itself when it holds one and from the parent chain
\* otherwise (and no other answer, under either reading of a deletion).
C11_ResolveRecent ==
  answer.op = "Resolve" =>
    [err |-> answer.err, v |-> answer.v]
      \in {Meaning(live.all, answer.s, answer.str),
           Meaning(live.last, answer.s, answer.str)}

\* C12: let y = <expr> adds one new field named y holding the value of the
\* expression and leaves every field already in the Environment unchanged:
\* a field named on the right-hand side keeps its identifier.
C12_LetAddsField ==
  [][(Running /\ Node.t = "Let" /\ err' = Nil) =>
       /\ Len(Env') = Len(Env) + 1
       /\ Env'[Len(Env')].id = Node.id
       /\ \A i \in 1..Len(Env) : Env'[i] = Env[i]]_vars

(***************************************************************************)
(* The evaluator and the value functions applied on their own: to          *)
(* expressions over a fixed Environment, to sample values, to conversion   *)
(* tables.                                                                 *)
(***************************************************************************)
MaxRaw == 5       \* largest raw value handed to a point-pair conversion

\* parse.go:929-959  a < b < c as the parser builds it
Chain(a, op1, b, op2, c) == Binary("&&", Binary(op1, a, b), Binary(op2, b, c))

\* a pair of a conversion table (nodes.go Constant): id and value literals
Constant(id, value) == [id |-> id, value |-> Lit("Float", value)]

\* decode.go:792  the loop from pair i on; between two ids the loop is left
\* and the value is returned as it came
RECURSIVE pointFrom(_, _, _, _)
pointFrom(cs, v, i, h) ==
  IF i > Len(cs) THEN [err |-> Nil, v |-> v]
  ELSE LET raw == asInt(v)
           id == cs[i].id
           val == eval(cs[i].value, h)
       IN IF raw = id
          THEN IF val.err # Nil THEN [err |-> val.err, v |-> Null]
               ELSE [err |-> Nil, v |-> Value("Real", asReal(val.v), v.id, 0, "nil")]
          ELSE IF i + 1 <= Len(cs) /\ id < raw /\ raw < cs[i + 1].id
          THEN [err |-> Nil, v |-> v]
          ELSE pointFrom(cs, v, i + 1, h)
evalPoint(cs, v) == pointFrom(cs, v, 1, heap)

\* values of every kind
Numbers(k) ==
  [n \in 1..3 |->
     Value(k, IF k = "Real" THEN Halves(n - 1) ELSE n - 1, kwAno, 0, "nil")]
Texts(k) ==
  <<Value(k, << >>, kwAno, 0, "nil"), Value(k, <<0>>, kwAno, 0, "nil"),
    Value(k, <<97>>, kwAno, 0, "nil")>>
Samples ==
  <<Null, anonymousBool(TRUE), anonymousBool(FALSE)>>
    \o Numbers("Int") \o Numbers("Uint") \o Numbers("Real")
    \o <<Value("Real", 1, kwAno, 0, "nil"), Value("Real", 5, kwAno, 0, "nil")>>
    \o Texts("String") \o Texts("Bytes")

True == Lit("Bool", TRUE)
False == Lit("Bool", FALSE)
LogicalExprs ==
  {Binary(op, l, r) :
     op \in {"&&", "||"},
     l \in {True, False, Eq(Id("x"), Num(1)), Id("s"), Id("nope")},
     r \in {True, False, Id("nope")}}
ChainedExprs ==
  {Chain(a, op1, b, op2, c) :
     a \in {Num(0), Num(2)}, op1 \in {"<", ">="}, b \in {Num(1), Id("x")},
     op2 \in {"<", "<="}, c \in {Num(2), Id("nope")}}
MemberExprs ==
  {Member(ref, attr) :
     ref \in {"x", "s", "y", "nope"},
     attr \in {"raw", "eng", "id", "pos", "len", "bad"}}
Exprs == LogicalExprs \cup ChainedExprs \cup MemberExprs

Tables ==
  {<<Constant(0, y0), Constant(2, y1), Constant(4, y2)>> :
     y0 \in {10, 20}, y1 \in {20, 40}, y2 \in {0, 30}}
    \cup {<<Constant(1, 7)>>, << >>}

\* an Environment of a numeric parameter x, a bytes parameter s at bit 8 and
\* a let-bound y
EvalInit ==
  /\ data = Data(<< >>) /\ reader = << >> /\ buffer \in {<<0, 1>>, <<1, 1>>}
  /\ Pos = 16 /\ Loop = 0
  /\ heap = <<Value("Uint", buffer[1], "x", 0, "self"),
              Value("Bytes", <<buffer[2]>>, "s", 8, "nil"),
              Value("Int", 2, "y", 0, "nil")>>
  /\ Values = <<1, 2, 3>>
  /\ blocks = << >> /\ stack = << >> /\ err = Nil /\ pc = "done"
  /\ result = Nil
  /\ last = [op |-> "Reset", pos0 |-> 0, err0 |-> Nil, size |-> 0, kind |-> ""]
  /\ NoChain /\ NoProbe /\ NoSinks /\ NoWalk

\* eval.go:8
ApplyEval ==
  /\ \E e \in Exprs :
       LET r == eval(e, heap)
       IN /\ probe' = [f |-> "eval", e |-> e, err |-> r.err, v |-> r.v]
          /\ heap' = r.h
  /\ UNCHANGED <<data, reader, buffer, Pos, Loop, Values, blocks, stack, err,
                 pc, result, last, scopes, live, answer, sinks, walk>>

\* values.go:597
ApplyAsBool ==
  /\ \E i \in DOMAIN Samples :
       probe' = [f |-> "asBool", v |-> Samples[i], ok |-> asBool(Samples[i])]
  /\ UNCHANGED <<decoder, scopes, live, answer, sinks, walk>>

\* values.go  Value.Cmp
ApplyCmp ==
  /\ \E i \in DOMAIN Samples, j \in DOMAIN Samples :
       LET l == Samples[i]
           r == Samples[j]
       IN probe' = [f |-> "Cmp", l |-> l, r |-> r, cmp |-> Cmp(l, r)]
  /\ UNCHANGED <<decoder, scopes, live, answer, sinks, walk>>

\* decode.go:792
ApplyPoint ==
  /\ \E cs \in Tables, raw \in 0..MaxRaw :
       LET v == Value("Uint", raw, "x", 0, "nil")
           r == evalPoint(cs, v)
       IN probe' = [f |-> "evalPoint", cs |-> cs, raw |-> v, err |-> r.err,
                    v |-> r.v]
  /\ UNCHANGED <<decoder, scopes, live, answer, sinks, walk>>

\* decode.go:504  a parameter of whole bytes decoded from the head of a
\* buffer holding exactly its span
MaxSpan == 3      \* bytes of the span of a numeric parameter
ApplyNumber ==
  /\ \E buf \in SeqsUpTo({1, 2}, MaxSpan) \ {<< >>}, e \in {"", "little"} :
       LET bits == numbit * Len(buf)
           p == Parameter("v", "uint", Token("Integer", bits), e, NoExpr)
           r == decodeNumber(p, buf, bits, 0, 0)
       IN probe' = [f |-> "decodeNumber", p |-> p, buf |-> buf, err |-> r.err,
                    v |-> r.v]
  /\ UNCHANGED <<decoder, scopes, live, answer, sinks, walk>>

\* values.go:171, 276, 377  add of two numeric values, in both orders
ApplyAdd ==
  /\ \E i \in DOMAIN Samples, j \in DOMAIN Samples :
       /\ isCompatible(Samples[i], Samples[j])
       /\ probe' = [f |-> "add", l |-> Samples[i], r |-> Samples[j],
                    lr |-> arith("+", Samples[i], Samples[j]),
                    rl |-> arith("+", Samples[j], Samples[i])]
  /\ UNCHANGED <<decoder, scopes, live, answer, sinks, walk>>

(***************************************************************************)
(* Merge (unnamed/part_010).  The root block holds the declare block, the  *)
(* pairs and the named blocks; a missing branch of an If or of a Match is  *)
(* NoNode.                                                                 *)
(***************************************************************************)
NoNode == [t |-> "nil"]
If(expr, csq, alt) == [t |-> "If", expr |-> expr, csq |-> csq, alt |-> alt]
Match(nodes, alt) == [t |-> "Match", nodes |-> nodes, alt |-> alt]
MatchCase(node) == [node |-> node]
Pair(id) == [t |-> "Pair", id |-> id]
\* a parameter with `apply` set to the name of a pair
Applying(p, pair) == [apply |-> pair] @@ p

\* nodes.go:621, 634, 668  the first node of that sort and name: [err, node]
Lookup(nodes, t, id, what) ==
  LET I == {i \in 1..Len(nodes) : nodes[i].t = t /\ nodes[i].id = id}
  IN IF I = {} THEN [err |-> Err(what), node |-> NoNode]
     ELSE [err |-> Nil, node |-> nodes[CHOOSE i \in I : \A j \in I : i <= j]]
ResolveBlockIn(root, id) == Lookup(root.nodes, "Block", id, "block not defined")
ResolvePair(root, id) == Lookup(root.nodes, "Pair", id, "pair not defined")
ResolveParameter(root, id) ==
  LET def == ResolveBlockIn(root, "declare")
  IN IF def.err # Nil THEN def
     ELSE Lookup(def.node.nodes, "Parameter", id, "parameter not defined")

\* part_010:70  the parameter is returned along with the error
mergeParameter(p, root) ==
  IF "apply" \notin DOMAIN p THEN [err |-> Nil, node |-> p]
  ELSE LET pair == ResolvePair(root, p.apply)
       IN IF pair.err = Nil THEN [err |-> Nil, node |-> [p EXCEPT !.apply = pair.node]]
          ELSE [err |-> pair.err, node |-> p]

RECURSIVE mergeBlock(_, _)
\* part_010:132  a node that is neither a Block nor a Reference is merged as
\* the empty Block
mergeNode(node, root) ==
  CASE node.t = "Block" -> mergeBlock(node, root)
    [] node.t = "Reference" ->
         LET b == ResolveBlockIn(root, node.id)
         IN IF b.err # Nil THEN b ELSE mergeBlock(b.node, root)
    [] OTHER -> mergeBlock(Block("", << >>), root)

\* part_010:82  err is assigned by the consequent and again by the alternative
mergeIf(i, root) ==
  LET merged(branch, err0) ==
        IF branch.t = "nil" THEN [err |-> err0, node |-> branch]
        ELSE mergeNode(branch, root)
      after(c) ==
        LET a == merged(i.alt, c.err)
        IN [err |-> a.err, node |-> [i EXCEPT !.csq = c.node, !.alt = a.node]]
  IN after(merged(i.csq, Nil))

\* part_010:93
mergeInclude(i, root) ==
  LET done(m) ==
        IF m.err # Nil THEN [err |-> m.err, node |-> NoNode]
        ELSE IF i.cond.e = "nil" THEN m
        ELSE [err |-> Nil, node |-> [i EXCEPT !.node = m.node]]
  IN done(mergeNode(i.node, root))

\* part_010:106  the repeat is returned along with the error
mergeRepeat(r, root) ==
  LET done(m) ==
        IF m.err = Nil THEN [err |-> Nil, node |-> [r EXCEPT !.node = m.node]]
        ELSE [err |-> m.err, node |-> r]
  IN done(mergeNode(r.node, root))

\* part_010:115-121  the cases from k on
RECURSIVE mergeCases(_, _, _)
mergeCases(m, k, root) ==
  IF k > Len(m.nodes) THEN [err |-> Nil, node |-> m]
  ELSE LET next(c) ==
             IF c.err # Nil THEN [err |-> c.err, node |-> NoNode]
             ELSE mergeCases([m EXCEPT !.nodes[k].node = c.node], k + 1, root)
       IN next(mergeNode(m.nodes[k].node, root))

\* part_010:114
mergeMatch(m, root) ==
  LET withAlt(r) ==
        IF r.err # Nil \/ r.node.alt.node.t = "nil" THEN r
        ELSE LET done(a) ==
                   IF a.err # Nil THEN [err |-> a.err, node |-> NoNode]
                   ELSE [err |-> Nil, node |-> [r.node EXCEPT !.alt.node = a.node]]
             IN done(mergeNode(r.node.alt.node, root))
  IN withAlt(mergeCases(m, 1, root))

\* part_010:35-57  one node of a block
mergeOne(n, root) ==
  CASE n.t = "Block" -> mergeBlock(n, root)
    [] n.t = "Parameter" -> mergeParameter(n, root)
    [] n.t = "Include" -> mergeInclude(n, root)
    [] n.t = "Repeat" -> mergeRepeat(n, root)
    [] n.t = "Match" -> mergeMatch(n, root)
    [] n.t = "If" -> mergeIf(n, root)
    [] n.t = "Reference" ->
         LET p == ResolveParameter(root, n.id)
         IN IF p.err = Nil THEN mergeParameter(p.node, root) ELSE p
    [] OTHER -> [err |-> Nil, node |-> n]

\* part_010:30-65  the nodes of dat from k on, nodes being those merged so far
RECURSIVE mergeFrom(_, _, _, _)
mergeFrom(dat, k, nodes, root) ==
  IF k > Len(dat.nodes) THEN [err |-> Nil, node |-> [dat EXCEPT !.nodes = nodes]]
  ELSE LET next(nx) ==
             IF nx.err # Nil THEN [err |-> nx.err, node |-> NoNode]
             ELSE mergeFrom(dat, k + 1, Append(nodes, nx.node), root)
       IN next(mergeOne(dat.nodes[k], root))

\* part_010:28
mergeBlock(dat, root) == mergeFrom(dat, 1, << >>, root)

\* part_010:8  on the root block the parser returns
Merge(root) ==
  LET dat == ResolveBlockIn(root, "data")
  IN IF dat.err # Nil THEN dat ELSE mergeBlock(dat.node, root)

\* declare ( p: uint 8, q: uint 8 with pr, r: uint 8 with nopair )
Declare ==
  Block("declare", <<Field("p", "uint", 8), Applying(Field("q", "uint", 8), "pr"),
                     Applying(Field("r", "uint", 8), "nopair")>>)
\* the places a body is read from: a block of the root by name, or a block
\* written in place
Bodies ==
  {Reference("hdr"), Reference("bad"), Reference("nope"),
   Body(<<Reference("p")>>), Body(<<Reference("nope")>>)}
Statements ==
  {Reference(id) : id \in {"p", "q", "r", "nope"}}
    \cup {Include(c, b) : c \in {NoExpr, True}, b \in Bodies}
    \cup {Repeat(Num(2), b) : b \in Bodies}
    \cup {Match(<<MatchCase(b)>>, MatchCase(alt)) :
            b \in Bodies, alt \in Bodies \cup {NoNode}}
    \cup {If(True, csq, alt) :
            csq \in Bodies,
            alt \in Bodies \cup {NoNode, If(True, Reference("nope"), NoNode)}}
\* a script: the declarations, and a data block around one statement
Root(n) ==
  Block("", <<Declare, Pair("pr"),
              Block("hdr", <<Field("x", "uint", 8), Reference("p")>>),
              Block("bad", <<Reference("nope")>>),
              Data(<<Field("a", "uint", 8), n, Field("b", "uint", 8)>>)>>)

\* part_010:8
ApplyMerge ==
  /\ \E n \in Statements :
       LET m == Merge(Root(n))
       IN probe' = [f |-> "Merge", n |-> n, err |-> m.err, node |-> m.node]
  /\ UNCHANGED <<decoder, scopes, live, answer, sinks, walk>>

EvalNext ==
  \/ ApplyEval \/ ApplyAsBool \/ ApplyCmp \/ ApplyPoint \/ ApplyNumber
  \/ ApplyAdd \/ ApplyMerge
EvalSpec == EvalInit /\ [][EvalNext]_vars

\* the verdict of the left operand of a logical expression
LeftOf(e) == eval(e.Left, heap)
\* the left operand alone determines a && b (falsy) or a || b (truthy)
Determined(e) ==
  /\ LeftOf(e).err = Nil
  /\ isTrue(LeftOf(e).v) = (e.operator = "||")

\* C13: a && b does not evaluate b when a is falsy and a || b does not
\* evaluate b when a is truthy: an error that evaluating b would raise does
\* not occur when the left operand already determines the result.
C13_ShortCircuit ==
  (probe.f = "eval" /\ probe.e \in LogicalExprs /\ Determined(probe.e)) =>
    (probe.err = Nil /\ probe.v = anonymousBool(probe.e.operator = "||"))

\* C14: a chained comparison a < b < c evaluates as a < b && b < c does,
\* the second comparison not being evaluated when the first is false: the
\* result is then false and no error of the second comparison occurs.
C14_ChainedComparison ==
  (/\ probe.f = "eval" /\ probe.e \in ChainedExprs
   /\ LeftOf(probe.e).err = Nil /\ ~isTrue(LeftOf(probe.e).v)) =>
    (probe.err = Nil /\ probe.v = anonymousBool(FALSE))

\* the truth value of a runtime value as specified
Truth(v) ==
  CASE v.kind = "Boolean" -> v.raw
    [] v.kind \in {"Int", "Uint", "Real"} -> v.raw # 0
    [] v.kind \in {"String", "Bytes"} -> v.raw # << >>
    [] OTHER -> FALSE

\* C15: the truth value of a runtime value is: Boolean, its raw bit; Int
\* and Uint, true iff non-zero; Real, true iff non-zero; String and Bytes,
\* true iff non-empty; Null, false.
C15_Truth == probe.f = "asBool" => probe.ok = Truth(probe.v)

\* C16: comparing two values of mismatched kinds, other than two numeric
\* kinds, never reports them equal, whichever operand is on the left (so an
\* expect of a kind not compatible with the decoded value fails).
C16_MismatchedKinds ==
  (/\ probe.f = "Cmp" /\ probe.l.kind # probe.r.kind
   /\ ~isCompatible(probe.l, probe.r)) => probe.cmp # 0

\* the field a member access names, when the Environment holds it
Held(m) == ResolveValue(heap, m.ref) # 0
FieldOf(m) == heap[ResolveValue(heap, m.ref)]
Accessed == probe.f = "eval" /\ probe.e \in MemberExprs /\ Held(probe.e)
\* v is the value w: its kind first, values of two kinds having raws of two
\* sorts
Same(v, w) == v.kind = w.kind /\ v.raw = w.raw /\ v.id = w.id

\* C17: x.eng on a field that has no engineering value (no conversion was
\* applied to it) returns the raw value of the field.
C17_EngFallsBack ==
  (Accessed /\ probe.e.attr = "eng") =>
    (probe.err = Nil /\ Same(probe.v, FieldOf(probe.e)))

\* C18: x.attr succeeds exactly for attr in {raw, eng, id, pos, len},
\* returning the raw value, the engineering value, the identifier of the
\* field as a String, its bit offset as an Int and its bit length as an
\* Int; any other attribute is an error.
C18_MemberAttributes ==
  Accessed =>
    CASE probe.e.attr = "raw" -> probe.err = Nil /\ Same(probe.v, FieldOf(probe.e))
      [] probe.e.attr = "eng" -> probe.err = Nil
      [] probe.e.attr = "id" ->
           /\ probe.err = Nil /\ probe.v.kind = "String"
           /\ probe.v.raw = Ascii[probe.e.ref]
      [] probe.e.attr = "pos" ->
           /\ probe.err = Nil /\ probe.v.kind = "Int"
           /\ probe.v.raw = FieldOf(probe.e).pos
      [] probe.e.attr = "len" -> probe.err = Nil /\ probe.v.kind = "Int"
      [] OTHER -> probe.err # Nil

\* the frame of the nearest enclosing repeat, 0 outside of any repeat
NearestRepeat ==
  LET K == {k \in 1..Len(stack) : stack[k].f = "repeat"}
  IN IF K = {} THEN 0 ELSE CHOOSE k \in K : \A j \in K : j <= k

\* C19: inside a repeat body $Iter resolves to the index of the current
\* iteration of the nearest enclosing repeat, updated on every iteration
\* (counted from 0 or from 1).
C19_IterResolves ==
  [][(/\ Running /\ Node.t = "Let" /\ NearestRepeat # 0
      /\ Node.expr.right.e = "Identifier" /\ Node.expr.right.type = "Internal"
      /\ Node.expr.right.id = "Iter") =>
       /\ err' = Nil
       /\ Len(Env') = Len(Env) + 1
       /\ Env'[Len(Env')].raw \in {stack[NearestRepeat].i,
                                   stack[NearestRepeat].i + 1}]_vars

\* the mapped real of pair i of a table, in halves
Mapped(cs, i) == Halves(cs[i].value.val)
\* y is on the line through pairs i and i + 1 of the table, at raw
Interpolates(cs, i, raw, y) ==
  (y - Mapped(cs, i)) * (cs[i + 1].id - cs[i].id)
    = (raw - cs[i].id) * (Mapped(cs, i + 1) - Mapped(cs, i))

\* C20: point-pair conversion returns the mapped real when the raw value
\* equals the id of a pair, and the linear interpolation between the two
\* bracketing pairs when it lies strictly between two consecutive ids.
C20_PointConversion ==
  probe.f = "evalPoint" =>
    LET cs == probe.cs
        raw == probe.raw.raw
    IN /\ \A i \in 1..Len(cs) :
            raw = cs[i].id =>
              /\ probe.err = Nil /\ probe.v.kind = "Real"
              /\ probe.v.raw = Mapped(cs, i)
       /\ \A i \in 1..(Len(cs) - 1) :
            (cs[i].id < raw /\ raw < cs[i + 1].id) =>
              /\ probe.err = Nil /\ probe.v.kind = "Real"
              /\ Interpolates(cs, i, raw, probe.v.raw)

\* C21: a little-endian numeric parameter of 1 to 8 whole bytes is decoded
\* from its byte span taken in reversed byte order.
C21_LittleEndian ==
  (probe.f = "decodeNumber" /\ probe.p.endian = "little") =>
    /\ probe.err = Nil
    /\ probe.v.raw = compose(Reverse(probe.buf))

\* v and w are the same number
Equal(v, w) == asReal(v) = asReal(w)

\* C25: for numeric operands a and b of any numeric kinds, alike or mixed,
\* a + b and b + a evaluate to equal values.
C25_AddCommutes ==
  probe.f = "add" =>
    /\ probe.lr.err = Nil /\ probe.rl.err = Nil
    /\ Equal(probe.lr.v, probe.rl.v)

\* C26: a break or continue whose predicate evaluates to false has no
\* effect: the statement that follows it in the same block is the next one
\* executed.
C26_FalsePredicateFallsThrough ==
  [][(/\ Running /\ Node.t \in {"Break", "Continue"}
      /\ Top.i < Len(Top.nodes)
      /\ err' = Nil) => stack' = Advance]_vars

\* C28: decoding ends with success or with a returned error and never
\* aborts with a run-time fault: a division or modulo by zero, and a
\* parameter size that is negative or reaches past the buffered data, are
\* reported as errors.
C28_NoRuntimeFault == err # Panic /\ result # Panic

\* C29: after `del x` no field with identifier x remains in the current
\* scope, however many fields named x were present and wherever they sit.
C29_DelRemovesAll ==
  [][(Running /\ Node.t = "Del") =>
       \A i \in 1..Len(Values'), j \in 1..Len(Node.ids) :
         heap'[Values'[i]].id # Node.ids[j]]_vars

(***************************************************************************)
(* Run to its end (decode.go:91-110).  The passes after the last one that  *)
(* Loop counts are followed too, Loop staying at MaxLoop; the loop of Run  *)
(* runs on as long as it can take a step.                                  *)
(***************************************************************************)
\* decode.go:106-107  the end of a pass after the passes counted
RunPassAgain ==
  /\ pc = "pass" /\ stack = << >> /\ err = Nil /\ reset.err = Nil
  /\ Loop = MaxLoop
  /\ pc' = "grow"
  /\ buffer' = reset.buffer
  /\ Values' = << >>
  /\ heap' = << >>
  /\ Pos' = 0
  /\ last' = Step("PassEnd", 0, "")
  /\ UNCHANGED <<data, reader, Loop, blocks, stack, err, result>>
  /\ UNCHANGED apart

\* execute.go:72  Run on the streams of two byte values
RunInit == Init /\ reader \in SeqsUpTo({0, 1}, MaxInput)
RunNext == Next \/ RunPassAgain
RunSpec == RunInit /\ [][RunNext]_vars /\ WF_vars(RunNext)

\* C27: on every finite input Run eventually returns, whatever number of
\* bits (zero, fewer than 8, or more) a pass consumes.
C27_RunReturns == <>(pc = "done")

(***************************************************************************)
(* Destination files (decode.go:339-366).  A print or an echo opens its    *)
(* destination through openFile and writes one record to the handle it     *)
(* gets; the records are numbered in the order the decoder produces them.  *)
(* The destinations here are files: the standard streams and /dev/null     *)
(* are not opened.                                                         *)
(***************************************************************************)
MaxRecords == 4   \* prints and echoes the decoder executes
Paths == {"/data", "/data/hdr"}
Files == {"a", "b"}

\* decode.go:339  openFile(file) with p the path of the running block; w is
\* the handle returned, made tells that os.Create ran
openFile(p, file) ==
  LET w == files[p]
      n == Len(handles) + 1
  IN IF w # 0 /\ handles[w].name = file
     THEN [files |-> files, handles |-> handles, disk |-> disk, w |-> w,
           made |-> FALSE]
     ELSE [files |-> [files EXCEPT ![p] = n],
           handles |->
             Append(IF w # 0 THEN [handles EXCEPT ![w].open = FALSE] ELSE handles,
                    [name |-> file, off |-> 0, open |-> TRUE]),
           disk |-> [disk EXCEPT ![file] = << >>],
           w |-> n, made |-> TRUE]

\* os.File.Write of one record at the offset of the handle: past the end
\* of the file the gap reads as zeroes
write(content, off, rec) ==
  IF off >= Len(content)
  THEN content \o [i \in 1..(off - Len(content)) |-> 0] \o <<rec>>
  ELSE [content EXCEPT ![off + 1] = rec]

FileInit ==
  /\ Idle /\ NoChain /\ NoProbe /\ NoWalk
  /\ files = [p \in Paths |-> 0]
  /\ handles = << >>
  /\ disk = [f \in Files |-> << >>]
  /\ sunk = [n |-> 0, records |-> [f \in Files |-> << >>], made |-> [f \in Files |-> 0]]

\* decode.go:367, 386  decodeEcho, decodePrint: record n + 1 goes to file
Emit ==
  /\ sunk.n < MaxRecords
  /\ \E p \in Paths, file \in Files :
       LET o == openFile(p, file)
           rec == sunk.n + 1
       IN /\ files' = o.files
          /\ handles' = [o.handles EXCEPT ![o.w].off = @ + 1]
          /\ disk' = [o.disk EXCEPT ![file] = write(@, o.handles[o.w].off, rec)]
          /\ sunk' = [n |-> rec,
                      records |-> [sunk.records EXCEPT ![file] = Append(@, rec)],
                      made |-> [sunk.made EXCEPT
                                  ![file] = @ + (IF o.made THEN 1 ELSE 0)]]
  /\ UNCHANGED <<decoder, scopes, live, answer, probe, walk>>

FileNext == Emit
FileSpec == FileInit /\ [][FileNext]_vars

\* C24: a destination file is created the first time it is referenced and
\* not again during the decoder's life: it holds the records sent to it, all
\* of them, in the order the decoder produced them.
C24_SinksAppendOnly ==
  \A f \in Files : sunk.made[f] <= 1 /\ disk[f] = sunk.records[f]

\* a tree Merge is done with, below a block: no Reference is left, no
\* Include without a predicate, and no Block among the statements of a
\* list (the scripts of the model write none there: such a Block is an
\* include that was put in the list whole)
RECURSIVE Resolved(_)
Inlined(n) ==
  CASE n.t \in {"Reference", "Block"} -> FALSE
    [] n.t = "Include" -> n.cond.e # "nil" /\ Resolved(n.node)
    [] n.t = "Repeat" -> Resolved(n.node)
    [] n.t = "If" -> Resolved(n.csq) /\ Resolved(n.alt)
    [] n.t = "Match" ->
         /\ \A k \in 1..Len(n.nodes) : Resolved(n.nodes[k].node)
         /\ Resolved(n.alt.node)
    [] n.t = "Parameter" -> "apply" \in DOMAIN n => n.apply.t = "Pair"
    [] OTHER -> TRUE
Resolved(b) ==
  CASE b.t = "nil" -> TRUE
    [] b.t = "Block" -> \A k \in 1..Len(b.nodes) : Inlined(b.nodes[k])
    [] OTHER -> FALSE

\* C22: after Merge the data tree holds no Include without a predicate and
\* no Reference in a block body: each was replaced by what it names, the
\* children of an unpredicated include being lifted into the enclosing list.
C22_MergeInlines ==
  (probe.f = "Merge" /\ probe.err = Nil) => Resolved(probe.node)

\* the root does not define all that is named at or below a statement, or
\* at or below the place a body is read from
DanglingPair(p, root) ==
  "apply" \in DOMAIN p /\ ResolvePair(root, p.apply).err # Nil
RECURSIVE DanglingBody(_, _)
Dangling(n, root) ==
  CASE n.t = "Reference" ->
         \/ ResolveParameter(root, n.id).err # Nil
         \/ DanglingPair(ResolveParameter(root, n.id).node, root)
    [] n.t = "Parameter" -> DanglingPair(n, root)
    [] n.t \in {"Include", "Repeat"} -> DanglingBody(n.node, root)
    [] n.t = "If" -> DanglingBody(n.csq, root) \/ DanglingBody(n.alt, root)
    [] n.t = "Match" ->
         \/ \E k \in 1..Len(n.nodes) : DanglingBody(n.nodes[k].node, root)
         \/ DanglingBody(n.alt.node, root)
    [] n.t = "Block" -> DanglingBody(n, root)
    [] OTHER -> FALSE
DanglingBody(b, root) ==
  CASE b.t = "Block" -> \E k \in 1..Len(b.nodes) : Dangling(b.nodes[k], root)
    [] b.t = "Reference" ->
         \/ ResolveBlockIn(root, b.id).err # Nil
         \/ DanglingBody(ResolveBlockIn(root, b.id).node, root)
    [] b.t = "If" -> Dangling(b, root)
    [] OTHER -> FALSE

\* C23: Merge fails with an error whenever a reference reachable from the
\* data block cannot be resolved, whether it sits in a body, an include, a
\* repeat, a match case or either branch of an if.
C23_MergeFails ==
  (probe.f = "Merge" /\ Dangling(probe.n, Root(probe.n))) => probe.err # Nil

\* ---------------------------------------------------------------------------
\* execute.go: walkFiles and DissectFiles.  walker is the goroutine of
\* walkFiles, queue its unbuffered channel, caller the loop of DissectFiles
\* ranging over it.  An argument is a file, a directory or, when Stat fails,
\* a pattern; found counts the regular files it yields.
MaxFiles == 2
MaxFound == 2
Arguments ==
  {[kind |-> "file", found |-> 1]}
    \cup {[kind |-> k, found |-> n] : k \in {"dir", "glob"}, n \in 0..MaxFound}

WalkInit ==
  /\ Idle /\ NoChain /\ NoProbe /\ NoSinks
  /\ \E fs \in SeqsUpTo(Arguments, MaxFiles) :
       walker = [pc |-> "range", files |-> fs, i |-> 0, left |-> 0]
  /\ queue = [closed |-> FALSE]
  /\ caller = [pc |-> "recv", err |-> Nil, seen |-> 0]

\* execute.go:122-141  the next argument: os.Stat, then globFiles,
\* filepath.Walk or the file itself
walkStat ==
  /\ walker.pc = "range" /\ walker.i < Len(walker.files)
  /\ LET f == walker.files[walker.i + 1]
     IN walker' = [walker EXCEPT !.i = @ + 1, !.left = f.found,
                                 !.pc = IF f.found > 0 THEN "send" ELSE "range"]
  /\ UNCHANGED <<queue, caller>>

\* execute.go:133, 140, 150 with execute.go:82  `queue <- f` meets the
\* receive of `for f := range`: the channel has no buffer, the send waits
\* for the receiver
walkSend ==
  /\ walker.pc = "send" /\ caller.pc = "recv"
  /\ walker' = [walker EXCEPT !.left = @ - 1,
                              !.pc = IF walker.left > 1 THEN "send" ELSE "range"]
  /\ caller' = [caller EXCEPT !.pc = "open", !.seen = @ + 1]
  /\ UNCHANGED queue

\* execute.go:121  defer close(queue), when the loop over the arguments ends
walkClose ==
  /\ walker.pc = "range" /\ walker.i = Len(walker.files)
  /\ walker' = [walker EXCEPT !.pc = "done"]
  /\ queue' = [queue EXCEPT !.closed = TRUE]
  /\ UNCHANGED caller

\* execute.go:83-86  os.Open: a file that cannot be opened is passed over
dissectOpen ==
  /\ caller.pc = "open"
  /\ \E ok \in BOOLEAN :
       caller' = [caller EXCEPT !.pc = IF ok THEN "run" ELSE "recv"]
  /\ UNCHANGED <<walker, queue>>

\* execute.go:87-91  s.Run(r): its error ends DissectFiles
dissectRun ==
  /\ caller.pc = "run"
  /\ \E e \in {Nil, Err("short buffer")} :
       caller' = [caller EXCEPT !.pc = IF e = Nil THEN "recv" ELSE "returned",
                                !.err = e]
  /\ UNCHANGED <<walker, queue>>

\* execute.go:82, 93  the range ends when the channel is closed
dissectEnd ==
  /\ caller.pc = "recv" /\ queue.closed
  /\ caller' = [caller EXCEPT !.pc = "returned"]
  /\ UNCHANGED <<walker, queue>>

WalkNext ==
  /\ \/ walkStat \/ walkSend \/ walkClose
     \/ dissectOpen \/ dissectRun \/ dissectEnd
  /\ UNCHANGED <<decoder, scopes, live, answer, probe, sinks>>
\* the Go scheduler runs every goroutine that can take a step
WalkSpec == WalkInit /\ [][WalkNext]_vars /\ WF_vars(WalkNext)

\* C30: the goroutine started by walkFiles terminates and closes its channel,
\* whatever DissectFiles does, its early return on an error of Run included.
C30_WalkerTerminates == <>(walker.pc = "done" /\ queue.closed)

====
